---- MODULE Spec2Model ----
(***************************************************************************)
(* Model of app.py, the Flask orchestration layer of the face-filter       *)
(* backend: the routes /, /upload, /processed/<fname>, /process-inline,    *)
(* the OPTIONS handler and the after_request hook, together with the       *)
(* filesystem they act on and the external tools they run.                 *)
(*                                                                         *)
(* Text is a sequence of one-character strings, a byte string a sequence   *)
(* of integers 0..255, a path the sequence of its components from the      *)
(* root, and the filesystem a function from the paths of the existing      *)
(* files to their contents.                                                *)
(***************************************************************************)
EXTENDS Integers, Sequences, FiniteSets, TLC

\* ------------------------------------------------------------------ bounds
\* request-handling threads of the threaded server (app.run(threaded=True))
MaxThreads == 2
\* names mkstemp / NamedTemporaryFile can draw from
MaxTemp == 6

Threads == 1..MaxThreads

\* ------------------------------------------------------------ characters
Letters == {"a", "b", "c", "d", "e", "g", "i", "k", "l", "m", "o", "p", "s",
            "t", "v", "w", "x", "y"}
Digits == {"0", "1", "2", "3", "4", "5", "6", "7", "8", "9"}
\* a non-ASCII letter; str.isalnum() is true of it
UnicodeAlnum == {"U+00E9"}

\* ------------------------------------------------------------- text used
s_masks == <<"m", "a", "s", "k", "s">>
s_cat == <<"c", "a", "t">>
s_dog == <<"d", "o", "g">>
s_png == <<".", "p", "n", "g">>
s_webm == <<".", "w", "e", "b", "m">>
s_mp4 == <<".", "m", "p", "4">>
s_mask_mp4 == <<"_", "m", "a", "s", "k", ".", "m", "p", "4">>
s_uploads == <<"u", "p", "l", "o", "a", "d", "s">>
s_processed == <<"p", "r", "o", "c", "e", "s", "s", "e", "d">>
s_tmp == <<"t", "m", "p">>
s_app == <<"a", "p", "p">>
s_dotdot == <<".", ".">>
s_url_prefix == <<"/">> \o s_processed \o <<"/">>
DigitChars == <<"0", "1", "2", "3", "4", "5", "6", "7", "8", "9">>

\* the one origin of the cross-origin policy
ORIGIN == "https://brookswimer.github.io"

\* --------------------------------------------------------------- paths
BASE_DIR == << s_app >>
TMP_DIR == << s_tmp >>

RECURSIVE SplitFrom(_, _, _)
\* the components of text s from position i on, cur being the component read
\* so far; empty components and "." are dropped as pathlib drops them
SplitFrom(s, i, cur) ==
  LET keep(c) == IF c = <<>> \/ c = <<".">> THEN <<>> ELSE <<c>>
  IN IF i > Len(s) THEN keep(cur)
     ELSE IF s[i] = "/" THEN keep(cur) \o SplitFrom(s, i + 1, <<>>)
     ELSE SplitFrom(s, i + 1, Append(cur, s[i]))

\* pathlib's  path / text
PathJoin(p, s) ==
  IF Len(s) > 0 /\ s[1] = "/" THEN SplitFrom(s, 1, <<>>)
  ELSE p \o SplitFrom(s, 1, <<>>)

UPLOAD_DIR == PathJoin(BASE_DIR, s_uploads)
PROCESSED_DIR == PathJoin(BASE_DIR, s_processed)
MASK_DIR == PathJoin(BASE_DIR, s_masks)
MASK_PATH == PathJoin(MASK_DIR, s_cat \o s_png)

\* the directories of the filesystem; none is created or removed at run time
Dirs == {<<>>, BASE_DIR, UPLOAD_DIR, PROCESSED_DIR, MASK_DIR, TMP_DIR}

RECURSIVE ResolveFrom(_, _, _)
\* the operating system's resolution of a path: ".." leaves a directory,
\* every component but the last must be a directory
ResolveFrom(p, i, at) ==
  IF i > Len(p) THEN [ok |-> TRUE, path |-> at]
  ELSE IF at \notin Dirs THEN [ok |-> FALSE, path |-> <<>>]
  ELSE IF p[i] = s_dotdot
       THEN ResolveFrom(p, i + 1,
                        IF at = <<>> THEN <<>> ELSE SubSeq(at, 1, Len(at) - 1))
       ELSE ResolveFrom(p, i + 1, Append(at, p[i]))

Resolve(p) == ResolveFrom(p, 1, <<>>)

\* Path.exists() / os.path.exists() on filesystem f
Exists(f, p) == Resolve(p).ok /\ Resolve(p).path \in DOMAIN f

\* f with file p created or overwritten with content c
WriteFile(f, p, c) == [q \in (DOMAIN f) \cup {p} |-> IF q = p THEN c ELSE f[q]]

\* f after os.unlink of every path of ps
Unlink(f, ps) == [q \in (DOMAIN f) \ ps |-> f[q]]

\* ------------------------------------------------------------ str methods
\* isalnum that only asks for a non-empty text
isalnum_NonEmpty(s) == Len(s) > 0

\* isalnum that is content with one alphanumeric character
isalnum_SomeChar(s) ==
  \E i \in 1..Len(s) : s[i] \in Letters \cup Digits \cup UnicodeAlnum

\* str.isalnum(): at least one character and every character alphanumeric
isalnum(s) ==
  /\ Len(s) > 0
  /\ \A i \in 1..Len(s) : s[i] \in Letters \cup Digits \cup UnicodeAlnum

\* werkzeug's secure_filename: separators become "_", only ASCII letters,
\* digits and "_", ".", "-" are kept, leading and trailing "." and "_" go
SecureChars == Letters \cup Digits \cup {"_", ".", "-"}

RECURSIVE FilterSecure(_)
FilterSecure(s) ==
  IF s = <<>> THEN <<>>
  ELSE LET c == IF s[1] \in {"/", "\\", " "} THEN "_" ELSE s[1]
       IN (IF c \in SecureChars THEN <<c>> ELSE <<>>) \o FilterSecure(Tail(s))

RECURSIVE StripEnds(_)
StripEnds(s) ==
  IF s = <<>> THEN s
  ELSE IF s[1] \in {".", "_"} THEN StripEnds(Tail(s))
  ELSE IF s[Len(s)] \in {".", "_"} THEN StripEnds(SubSeq(s, 1, Len(s) - 1))
  ELSE s

secure_filename(s) == StripEnds(FilterSecure(s))

\* stem that keeps the suffix
stem_WithSuffix(p) == p[Len(p)]

\* PurePath.stem: the last component without its last suffix
stem(p) ==
  LET n == p[Len(p)]
      dots == {i \in 2..Len(n) : n[i] = "."}
  IN IF dots = {} \/ n[Len(n)] = "." THEN n
     ELSE SubSeq(n, 1, (CHOOSE i \in dots : \A j \in dots : j <= i) - 1)

\* ------------------------------------------------------------ bytes.decode
RECURSIVE decode(_)
\* bytes.decode(): strict UTF-8, here for the one- and two-byte forms; a
\* byte that starts no valid form raises UnicodeDecodeError (ok = FALSE)
decode(b) ==
  IF b = <<>> THEN [ok |-> TRUE, text |-> <<>>]
  ELSE IF b[1] < 128
       THEN LET r == decode(Tail(b))
            IN [ok |-> r.ok, text |-> IF r.ok THEN <<b[1]>> \o r.text ELSE <<>>]
  ELSE IF b[1] >= 194 /\ b[1] <= 223 /\ Len(b) >= 2 /\ b[2] >= 128 /\ b[2] <= 191
       THEN LET r == decode(Tail(Tail(b)))
                cp == (b[1] - 192) * 64 + (b[2] - 128)
            IN [ok |-> r.ok, text |-> IF r.ok THEN <<cp>> \o r.text ELSE <<>>]
  ELSE [ok |-> FALSE, text |-> <<>>]

\* ------------------------------------------------------------- responses
\* a response: status, kind of body, the fields of a JSON body, the bytes of
\* a video body, and the values of its Access-Control-Allow-Origin header
NoResp ==
  [status |-> 0, kind |-> "none", error |-> "", hasDetails |-> FALSE,
   details |-> <<>>, url |-> <<>>, body |-> <<>>, mimetype |-> "", acao |-> <<>>]

\* jsonify({"error": e}), status
JsonError(e, status) ==
  [NoResp EXCEPT !.status = status, !.kind = "json", !.error = e,
                 !.mimetype = "application/json"]

\* jsonify({"error": e, "details": d}), status
JsonErrorDetails(e, d, status) ==
  [JsonError(e, status) EXCEPT !.hasDetails = TRUE, !.details = d]

\* the response Flask makes of an exception no handler catches
InternalServerError ==
  [NoResp EXCEPT !.status = 500, !.kind = "html", !.mimetype = "text/html"]

\* the response Flask makes of werkzeug's NotFound
NotFound ==
  [NoResp EXCEPT !.status = 404, !.kind = "html", !.mimetype = "text/html"]

\* the after_request hook of app.py
add_cors_headers(r) ==
  IF r.acao = <<>> THEN [r EXCEPT !.acao = <<ORIGIN>>] ELSE r

\* what the after_request handler of the flask_cors extension may do to the
\* header: the extension is not part of app.py, so each way is possible
CorsOutcomes == {"none", "set", "add"}

CorsExtension(r, c) ==
  IF c = "set" THEN [r EXCEPT !.acao = <<ORIGIN>>]
  ELSE IF c = "add" THEN [r EXCEPT !.acao = Append(r.acao, ORIGIN)]
  ELSE r

\* ---------------------------------------------------------------- inputs
\* uuid.uuid4() as text
UuidPool == {<<"a", "-", "1">>, <<"b", "-", "2">>}

\* the bytes of an uploaded clip
PayloadSamples == {"clip"}

\* values of the form field `mask`
MaskSamples ==
  { s_cat, s_dog, <<>>,
    <<".", ".", "/", "e", "v", "i", "l">>,
    <<".", ".", "/", "m", "a", "s", "k", "s", "/", "c", "a", "t">>,
    <<"c", "a", "t", ".", "p">>,
    <<"c", "\\", "t">>,
    <<"U+00E9">> }

\* names asked of /processed/<path:fname>
FnameSamples ==
  { id \o s_mask_mp4 : id \in UuidPool }
    \cup { <<".", ".", "/", "m", "a", "s", "k", "s", "/">> \o s_cat \o s_png }

\* what a failing tool writes on its standard error
ByteSamples == { <<>>, <<65>>, <<195, 169>>, <<255>> }

\* what the overlay step writes on its standard output
StdoutSamples == { <<65>>, <<255>> }

\* how a subprocess.run ends: exit status zero, exit status non-zero
\* (CalledProcessError), or the program could not be started (OSError)
Outcomes == {"zero", "nonzero", "nostart"}

\* ----------------------------------------------------------------- state
VARIABLES
  fs,       \* the filesystem: path -> content
  active,   \* the threads that serve requests
  pc,       \* per thread: where its handler stands
  route,    \* per thread: the route of the request it serves
  form,     \* per thread: the request's form and files
  loc,      \* per thread: the handler's local variables
  resp,     \* per thread: the response returned
  created,  \* per thread: the files the request created and has not unlinked (history)
  invoked,  \* per thread: the tool invocations of the request (history)
  exits,    \* per thread: how each invocation ended (history)
  trace     \* per thread: the stages the request went through (history)

vars == <<fs, active, pc, route, form, loc, resp, created, invoked, exits, trace>>

NoForm == [hasVideo |-> FALSE, video |-> "", hasMask |-> FALSE, mask |-> <<>>,
           fname |-> <<>>]

NoLoc == [in_name |-> <<>>, input_path |-> <<>>, out_name |-> <<>>,
          output_path |-> <<>>, mask_name |-> <<>>, mask_path |-> <<>>,
          interm_mp4 |-> <<>>, final_mp4 |-> <<>>, video_bytes |-> <<>>]

\* the filesystem at start: the default mask, no upload, no temp file
InitFs == [p \in {MASK_PATH} |-> <<"png">>]

InitThreads(T) ==
  /\ fs = InitFs
  /\ active = T
  /\ pc = [t \in Threads |-> "idle"]
  /\ route = [t \in Threads |-> "none"]
  /\ form = [t \in Threads |-> NoForm]
  /\ loc = [t \in Threads |-> NoLoc]
  /\ resp = [t \in Threads |-> NoResp]
  /\ created = [t \in Threads |-> {}]
  /\ invoked = [t \in Threads |-> <<>>]
  /\ exits = [t \in Threads |-> <<>>]
  /\ trace = [t \in Threads |-> <<>>]

\* one request at a time
Init == InitThreads({1})

\* ----------------------------------------------------------- temp files
\* temp files kept in the upload directory
TempPath_InUploads(n, sfx) == Append(UPLOAD_DIR, s_tmp \o <<DigitChars[n + 1]>> \o sfx)

\* the path of the temp file of number n and suffix sfx
TempPath(n, sfx) == Append(TMP_DIR, s_tmp \o <<DigitChars[n + 1]>> \o sfx)

\* the numbers whose name is not taken in f
Unused(f, sfx) == {n \in 1..MaxTemp : TempPath(n, sfx) \notin DOMAIN f}

\* a temp file of one fixed name
FreeTemp_FixedName(f, sfx) == {1}

\* the names a tempfile call can create in f: it opens its file with O_EXCL,
\* so it returns a name that does not exist; the names being interchangeable,
\* the lowest unused one stands for whichever it draws
FreeTemp(f, sfx) == {n \in Unused(f, sfx) : \A m \in Unused(f, sfx) : n <= m}

\* the threads whose /process-inline request is under way
InlineInFlight == {t \in Threads : route[t] = "process_inline" /\ pc[t] \notin {"idle", "done"}}

\* the .mp4 temp files the request of thread t has yet to make
Mp4ToCome(t) ==
  IF t \notin InlineInFlight THEN 0
  ELSE IF pc[t] = "staging" THEN 2
  ELSE IF pc[t] = "overlay" THEN 1
  ELSE 0

RECURSIVE Mp4ToComeOf(_)
\* the .mp4 temp files the requests of the threads of T have yet to make
Mp4ToComeOf(T) ==
  IF T = {} THEN 0
  ELSE LET t == CHOOSE x \in T : TRUE IN Mp4ToCome(t) + Mp4ToComeOf(T \ {t})

\* ---------------------------------------------------------- end of handler
\* the handler of thread t returns r: the after_request handlers run on it
\* (the one of app.py, then the one of the extension) and it is sent
Return(t, r, tr) ==
  /\ \E c \in CorsOutcomes :
       resp' = [resp EXCEPT ![t] = CorsExtension(add_cors_headers(r), c)]
  /\ pc' = [pc EXCEPT ![t] = "done"]
  /\ trace' = [trace EXCEPT ![t] =
                 tr \o << IF r.status = 200 THEN "Responded" ELSE "ErrorResponded" >>]

\* the request of thread t gets as far as route rt with form fm
Accept(t, rt, fm) ==
  /\ t \in active
  /\ pc[t] = "idle"
  /\ route' = [route EXCEPT ![t] = rt]
  /\ form' = [form EXCEPT ![t] = fm]

\* -------------------------------------------------------- external tools
\* subprocess.run of ffmpeg reading src and writing dst, ending with oc: on
\* exit zero dst holds the transcoded src; on a non-zero exit dst is left as
\* it was or holds a partial output
ffmpeg(f, src, dst, tag, oc, partial) ==
  IF oc = "zero" THEN WriteFile(f, dst, Append(f[src], tag))
  ELSE IF oc = "nonzero" /\ partial THEN WriteFile(f, dst, <<"partial">>)
  ELSE f

\* subprocess.run of overlay_processor.py on src, the mask and dst
overlay_processor(f, src, dst, oc, partial) ==
  IF oc = "zero" THEN WriteFile(f, dst, Append(f[src], "masked"))
  ELSE IF oc = "nonzero" /\ partial THEN WriteFile(f, dst, <<"partial">>)
  ELSE f

Invocation(tool, src, mask, dst) == [tool |-> tool, src |-> src, mask |-> mask, dst |-> dst]

RECURSIVE UnlinkAll(_, _)
\* os.unlink of the paths of sequence ps in turn; a missing file raises
\* (ok = FALSE) and leaves the later ones alone
UnlinkAll(f, ps) ==
  IF ps = <<>> THEN [ok |-> TRUE, fs |-> f]
  ELSE IF Head(ps) \notin DOMAIN f THEN [ok |-> FALSE, fs |-> f]
  ELSE UnlinkAll(Unlink(f, {Head(ps)}), Tail(ps))

\* the response to a CalledProcessError whose stderr is err:
\* jsonify({"error": summary, "details": e.stderr.decode()}), 500; the
\* decode raises on bytes that are not UTF-8
ToolFailure(summary, err) ==
  IF decode(err).ok THEN JsonErrorDetails(summary, decode(err).text, 500)
  ELSE InternalServerError

\* the check of the upload field left out
MissingVideo_Never(fm) == FALSE

\* the overlay step given the raw upload
OverlayInput_RawUpload(l) == l.input_path

\* the input handed to the overlay step of /process-inline: interm_mp4
OverlayInput(l) == l.interm_mp4

\* "video" not in request.files
MissingVideo(fm) == ~fm.hasVideo

\* request.form.get("mask", "cat")
MaskName(fm) == IF fm.hasMask THEN fm.mask ELSE s_cat

\* BASE_DIR / "masks" / f"{mask_name}.png"
MaskPathOf(mask_name) == PathJoin(PathJoin(BASE_DIR, s_masks), mask_name \o s_png)

\* ------------------------------------------------------------------ GET /
Index(t) ==
  /\ Accept(t, "index", NoForm)
  /\ Return(t, [NoResp EXCEPT !.status = 200, !.kind = "json",
                              !.mimetype = "application/json"], <<>>)
  /\ UNCHANGED <<fs, active, loc, created, invoked, exits>>

\* ---------------------------------------------------------- POST /upload
Upload(t) ==
  \E hv \in BOOLEAN, v \in PayloadSamples, hm \in BOOLEAN, id \in UuidPool :
    LET fm == [NoForm EXCEPT !.hasVideo = hv, !.video = IF hv THEN v ELSE "",
                             !.hasMask = hm, !.mask = IF hm THEN s_dog ELSE <<>>]
        in_name == secure_filename(id \o s_webm)
        input_path == PathJoin(UPLOAD_DIR, in_name)
        out_name == stem(input_path) \o s_mask_mp4
        output_path == PathJoin(PROCESSED_DIR, out_name)
    IN /\ Accept(t, "upload", fm)
       /\ IF MissingVideo(fm)
          THEN /\ Return(t, JsonError("No video field in form", 400), <<>>)
               /\ UNCHANGED <<fs, active, loc, created, invoked, exits>>
          ELSE /\ input_path \notin DOMAIN fs      \* uuid4 gives a new name
               /\ fs' = WriteFile(fs, input_path, <<fm.video>>)
               /\ loc' = [loc EXCEPT ![t] =
                            [NoLoc EXCEPT !.in_name = in_name, !.input_path = input_path,
                                          !.out_name = out_name, !.output_path = output_path]]
               /\ created' = [created EXCEPT ![t] = {input_path}]
               /\ invoked' = [invoked EXCEPT ![t] =
                                << Invocation("overlay", input_path, MASK_PATH, output_path) >>]
               /\ pc' = [pc EXCEPT ![t] = "upload_overlay"]
               /\ trace' = [trace EXCEPT ![t] = <<"Received">>]
               /\ UNCHANGED <<active, resp, exits>>

\* the overlay subprocess of /upload ends
UploadOverlayExit(t) ==
  /\ pc[t] = "upload_overlay"
  /\ \E oc \in Outcomes, err \in ByteSamples, partial \in BOOLEAN :
       LET l == loc[t]
           f1 == overlay_processor(fs, l.input_path, l.output_path, oc, partial)
       IN /\ oc # "nonzero" => (err = <<>> /\ ~partial)
          /\ fs' = f1
          /\ exits' = [exits EXCEPT ![t] = Append(@, [rc |-> oc, out |-> <<>>, err |-> err])]
          /\ created' = [created EXCEPT ![t] =
                           IF l.output_path \in DOMAIN f1 THEN @ \cup {l.output_path} ELSE @]
          /\ IF oc = "zero"
             THEN Return(t, [NoResp EXCEPT !.status = 200, !.kind = "json",
                                           !.mimetype = "application/json",
                                           !.url = s_url_prefix \o l.out_name],
                         Append(trace[t], "Overlaid"))
             ELSE IF oc = "nonzero"
             THEN Return(t, ToolFailure("Processing failed", err), trace[t])
             ELSE Return(t, InternalServerError, trace[t])
  /\ UNCHANGED <<active, route, form, loc, invoked>>

\* ------------------------------------------------- GET /processed/<fname>
RECURSIVE normpath(_, _)
\* posixpath.normpath on components c: ".." takes back the component before it
normpath(c, acc) ==
  IF c = <<>> THEN acc
  ELSE IF Head(c) = s_dotdot /\ acc # <<>> /\ acc[Len(acc)] # s_dotdot
       THEN normpath(Tail(c), SubSeq(acc, 1, Len(acc) - 1))
       ELSE normpath(Tail(c), Append(acc, Head(c)))

\* werkzeug's safe_join(directory, fname): None when fname is absolute or
\* leaves the directory
safe_join(dir, fname) ==
  LET c == normpath(SplitFrom(fname, 1, <<>>), <<>>)
  IN IF (Len(fname) > 0 /\ fname[1] = "/") \/ (c # <<>> /\ c[1] = s_dotdot)
     THEN [ok |-> FALSE, path |-> <<>>]
     ELSE [ok |-> TRUE, path |-> dir \o c]

\* send_from_directory(PROCESSED_DIR, fname, as_attachment=False) on f
send_from_directory(f, dir, fname) ==
  LET j == safe_join(dir, fname)
  IN IF j.ok /\ j.path \in DOMAIN f
     THEN [NoResp EXCEPT !.status = 200, !.kind = "file", !.body = f[j.path],
                         !.mimetype = "video/mp4"]
     ELSE NotFound

Processed(t) ==
  \E fname \in FnameSamples :
    /\ Accept(t, "processed", [NoForm EXCEPT !.fname = fname])
    /\ Return(t, send_from_directory(fs, PROCESSED_DIR, fname), <<>>)
    /\ UNCHANGED <<fs, active, loc, created, invoked, exits>>

\* ------------------------------------- OPTIONS /, /upload, /process-inline
handle_options(t) ==
  /\ Accept(t, "options", NoForm)
  /\ Return(t, [NoResp EXCEPT !.status = 200, !.kind = "empty", !.acao = <<ORIGIN>>], <<>>)
  /\ UNCHANGED <<fs, active, loc, created, invoked, exits>>

\* --------------------------------------------------- POST /process-inline
\* validation, then the upload saved to a temp .webm, the intermediate .mp4
\* made by mkstemp, and the staging transcode started
ProcessInline(t) ==
  \E hv \in BOOLEAN, v \in PayloadSamples, hm \in BOOLEAN, m \in MaskSamples :
    LET fm == [NoForm EXCEPT !.hasVideo = hv, !.video = IF hv THEN v ELSE "",
                             !.hasMask = hm, !.mask = IF hm THEN m ELSE <<>>]
        mask_name == MaskName(fm)
        mask_path == MaskPathOf(mask_name)
    IN /\ (~hm) => m = s_cat
       /\ Accept(t, "process_inline", fm)
       /\ IF MissingVideo(fm)
          THEN /\ Return(t, JsonError("No video field in form", 400), <<>>)
               /\ UNCHANGED <<fs, active, loc, created, invoked, exits>>
          ELSE IF ~isalnum(mask_name)
          THEN /\ Return(t, JsonError("Invalid mask name", 400), <<>>)
               /\ UNCHANGED <<fs, active, loc, created, invoked, exits>>
          ELSE IF ~Exists(fs, mask_path)
          THEN /\ Return(t, JsonError("Mask not found", 400), <<>>)
               /\ UNCHANGED <<fs, active, loc, created, invoked, exits>>
          ELSE \E n \in FreeTemp(fs, s_webm), k \in FreeTemp(fs, s_mp4) :
                 LET input_path == TempPath(n, s_webm)
                     interm_mp4 == TempPath(k, s_mp4)
                 IN \* room for the .mp4 files this request and the ones under way still make
                    /\ Cardinality(Unused(fs, s_mp4)) >= 3 + Mp4ToComeOf(Threads)
                    /\ fs' = WriteFile(WriteFile(fs, input_path, <<fm.video>>), interm_mp4, <<>>)
                    /\ loc' = [loc EXCEPT ![t] =
                                 [NoLoc EXCEPT !.mask_name = mask_name, !.mask_path = mask_path,
                                               !.input_path = input_path,
                                               !.interm_mp4 = interm_mp4]]
                    /\ created' = [created EXCEPT ![t] = {input_path, interm_mp4}]
                    /\ invoked' = [invoked EXCEPT ![t] =
                                     << Invocation("ffmpeg_stage", input_path, <<>>, interm_mp4) >>]
                    /\ pc' = [pc EXCEPT ![t] = "staging"]
                    /\ trace' = [trace EXCEPT ![t] = <<"Received">>]
                    /\ UNCHANGED <<active, resp, exits>>

\* the staging transcode ends; on exit zero the overlay output temp file is
\* made and the overlay step started
StagingExit(t) ==
  /\ pc[t] = "staging"
  /\ \E oc \in Outcomes, err \in ByteSamples, partial \in BOOLEAN :
       LET l == loc[t]
           f1 == ffmpeg(fs, l.input_path, l.interm_mp4, "x264", oc, partial)
           u == UnlinkAll(f1, <<l.input_path, l.interm_mp4>>)
       IN /\ oc # "nonzero" => (err = <<>> /\ ~partial)
          /\ exits' = [exits EXCEPT ![t] = Append(@, [rc |-> oc, out |-> <<>>, err |-> err])]
          /\ IF oc = "zero"
             THEN \E k \in FreeTemp(f1, s_mp4) :
                    LET output_path == TempPath(k, s_mp4)
                    IN /\ fs' = WriteFile(f1, output_path, <<>>)
                       /\ loc' = [loc EXCEPT ![t].output_path = output_path]
                       /\ created' = [created EXCEPT ![t] = @ \cup {output_path}]
                       /\ invoked' = [invoked EXCEPT ![t] =
                                        Append(@, Invocation("overlay", OverlayInput(l),
                                                             l.mask_path, output_path))]
                       /\ pc' = [pc EXCEPT ![t] = "overlay"]
                       /\ trace' = [trace EXCEPT ![t] = Append(@, "Staged")]
                       /\ UNCHANGED resp
             ELSE IF oc = "nonzero"
             THEN /\ fs' = u.fs
                  /\ created' = [created EXCEPT ![t] = @ \ (DOMAIN f1 \ DOMAIN u.fs)]
                  /\ IF u.ok
                     THEN Return(t, ToolFailure("Failed to convert WebM", err),
                                 Append(trace[t], "Cleaned"))
                     ELSE Return(t, InternalServerError, trace[t])
                  /\ UNCHANGED <<loc, invoked>>
             ELSE /\ fs' = f1
                  /\ Return(t, InternalServerError, trace[t])
                  /\ UNCHANGED <<loc, created, invoked>>
  /\ UNCHANGED <<active, route, form>>

\* the overlay step ends; on exit zero its stdout is decoded for the log,
\* the final .mp4 is made by mkstemp and the finalization transcode started
OverlayExit(t) ==
  /\ pc[t] = "overlay"
  /\ \E oc \in Outcomes, out \in StdoutSamples \cup {<<>>}, err \in ByteSamples, partial \in BOOLEAN :
       LET l == loc[t]
           f1 == overlay_processor(fs, OverlayInput(l), l.output_path, oc, partial)
           u == UnlinkAll(f1, <<l.input_path, l.interm_mp4, l.output_path>>)
       IN /\ oc # "nonzero" => (err = <<>> /\ ~partial)
          /\ IF oc = "zero" THEN out \in StdoutSamples ELSE out = <<>>
          /\ exits' = [exits EXCEPT ![t] = Append(@, [rc |-> oc, out |-> out, err |-> err])]
          /\ IF oc = "zero"
             THEN IF decode(out).ok
                  THEN \E k \in FreeTemp(f1, s_mp4) :
                         LET final_mp4 == TempPath(k, s_mp4)
                         IN /\ fs' = WriteFile(f1, final_mp4, <<>>)
                            /\ loc' = [loc EXCEPT ![t].final_mp4 = final_mp4]
                            /\ created' = [created EXCEPT ![t] = @ \cup {final_mp4}]
                            /\ invoked' = [invoked EXCEPT ![t] =
                                             Append(@, Invocation("ffmpeg_final", l.output_path,
                                                                  <<>>, final_mp4))]
                            /\ pc' = [pc EXCEPT ![t] = "finalizing"]
                            /\ trace' = [trace EXCEPT ![t] = Append(@, "Overlaid")]
                            /\ UNCHANGED resp
                  ELSE /\ fs' = f1
                       /\ Return(t, InternalServerError, Append(trace[t], "Overlaid"))
                       /\ UNCHANGED <<loc, created, invoked>>
             ELSE IF oc = "nonzero"
             THEN /\ fs' = u.fs
                  /\ created' = [created EXCEPT ![t] = @ \ (DOMAIN f1 \ DOMAIN u.fs)]
                  /\ IF u.ok
                     THEN Return(t, ToolFailure("Processing failed", err),
                                 Append(trace[t], "Cleaned"))
                     ELSE Return(t, InternalServerError, trace[t])
                  /\ UNCHANGED <<loc, invoked>>
             ELSE /\ fs' = f1
                  /\ Return(t, InternalServerError, trace[t])
                  /\ UNCHANGED <<loc, created, invoked>>
  /\ UNCHANGED <<active, route, form>>

\* the finalization transcode ends; a non-zero exit is logged (its stderr
\* decoded) and final_mp4 falls back to the overlay output
FinalizeExit(t) ==
  /\ pc[t] = "finalizing"
  /\ \E oc \in Outcomes, err \in ByteSamples, partial \in BOOLEAN :
       LET l == loc[t]
           f1 == ffmpeg(fs, l.output_path, l.final_mp4, "fps30", oc, partial)
       IN /\ oc # "nonzero" => (err = <<>> /\ ~partial)
          /\ exits' = [exits EXCEPT ![t] = Append(@, [rc |-> oc, out |-> <<>>, err |-> err])]
          /\ fs' = f1
          /\ IF oc = "zero"
             THEN /\ pc' = [pc EXCEPT ![t] = "read"]
                  /\ trace' = [trace EXCEPT ![t] = Append(@, "Finalized")]
                  /\ UNCHANGED <<loc, resp>>
             ELSE IF oc = "nonzero" /\ decode(err).ok
             THEN /\ loc' = [loc EXCEPT ![t].final_mp4 = l.output_path]
                  /\ pc' = [pc EXCEPT ![t] = "read"]
                  /\ trace' = [trace EXCEPT ![t] = Append(@, "FallbackToOverlaid")]
                  /\ UNCHANGED resp
             ELSE /\ Return(t, InternalServerError, trace[t])
                  /\ UNCHANGED loc
  /\ UNCHANGED <<active, route, form, created, invoked>>

\* the read taking the overlay output whatever final_mp4 is
ReadFinal_ReadsOverlay(t) ==
  /\ pc[t] = "read"
  /\ loc' = [loc EXCEPT ![t].video_bytes = fs[loc[t].output_path]]
  /\ pc' = [pc EXCEPT ![t] = "cleanup"]
  /\ UNCHANGED <<resp, trace>>
  /\ UNCHANGED <<fs, active, route, form, created, invoked, exits>>

\* with open(final_mp4, "rb") as fh: video_bytes = fh.read()
ReadFinal(t) ==
  /\ pc[t] = "read"
  /\ IF Exists(fs, loc[t].final_mp4)
     THEN /\ loc' = [loc EXCEPT ![t].video_bytes = fs[Resolve(loc[t].final_mp4).path]]
          /\ pc' = [pc EXCEPT ![t] = "cleanup"]
          /\ UNCHANGED <<resp, trace>>
     ELSE /\ Return(t, InternalServerError, trace[t])
          /\ UNCHANGED loc
  /\ UNCHANGED <<fs, active, route, form, created, invoked, exits>>

\* the unlinks never reached
Cleanup_Blocks(t) ==
  /\ pc[t] = "cleanup"
  /\ FALSE
  /\ UNCHANGED vars

\* the unlinks at the end of process_inline
Cleanup(t) ==
  /\ pc[t] = "cleanup"
  /\ LET l == loc[t]
         u == UnlinkAll(fs, <<l.input_path, l.interm_mp4, l.output_path>>)
         f2 == IF Exists(u.fs, l.final_mp4) /\ l.final_mp4 # l.output_path
               THEN Unlink(u.fs, {l.final_mp4}) ELSE u.fs
     IN IF u.ok
        THEN /\ fs' = f2
             /\ created' = [created EXCEPT ![t] = @ \ (DOMAIN fs \ DOMAIN f2)]
             /\ pc' = [pc EXCEPT ![t] = "respond"]
             /\ trace' = [trace EXCEPT ![t] = Append(@, "Cleaned")]
             /\ UNCHANGED resp
        ELSE /\ fs' = u.fs
             /\ created' = [created EXCEPT ![t] = @ \ (DOMAIN fs \ DOMAIN u.fs)]
             /\ Return(t, InternalServerError, trace[t])
  /\ UNCHANGED <<active, route, form, loc, invoked, exits>>

\* Response(video_bytes, mimetype="video/mp4") with its own CORS headers
RespondInline(t) ==
  /\ pc[t] = "respond"
  /\ Return(t, [NoResp EXCEPT !.status = 200, !.kind = "video",
                              !.body = loc[t].video_bytes, !.mimetype = "video/mp4",
                              !.acao = <<ORIGIN>>], trace[t])
  /\ UNCHANGED <<fs, active, route, form, loc, created, invoked, exits>>

\* the response is sent; the thread takes the next request
Finish(t) ==
  /\ pc[t] = "done"
  /\ pc' = [pc EXCEPT ![t] = "idle"]
  /\ route' = [route EXCEPT ![t] = "none"]
  /\ form' = [form EXCEPT ![t] = NoForm]
  /\ loc' = [loc EXCEPT ![t] = NoLoc]
  /\ resp' = [resp EXCEPT ![t] = NoResp]
  /\ created' = [created EXCEPT ![t] = {}]
  /\ invoked' = [invoked EXCEPT ![t] = <<>>]
  /\ exits' = [exits EXCEPT ![t] = <<>>]
  /\ trace' = [trace EXCEPT ![t] = <<>>]
  /\ UNCHANGED <<fs, active>>

Next ==
  \E t \in Threads :
    \/ Index(t)
    \/ Upload(t)
    \/ UploadOverlayExit(t)
    \/ Processed(t)
    \/ handle_options(t)
    \/ ProcessInline(t)
    \/ StagingExit(t)
    \/ OverlayExit(t)
    \/ FinalizeExit(t)
    \/ ReadFinal(t)
    \/ Cleanup(t)
    \/ RespondInline(t)
    \/ Finish(t)

Spec == Init /\ [][Next]_vars

\* ----------------------------------------------------- requests in parallel
\* every thread of the threaded server serves requests
InitConc == InitThreads(Threads)

\* the requests of the runs in parallel: a video field and no mask field,
\* tools that start, write text and leave no partial output, and one
\* Access-Control-Allow-Origin value; the threads are numbered in the order
\* in which their requests arrive
ConcInputs ==
  /\ \A p \in DOMAIN fs' : fs'[p] # <<"partial">>
  /\ \A t \in Threads :
       /\ route'[t] # "none" => (form'[t].hasVideo /\ ~form'[t].hasMask)
       /\ (route'[t] # "none" /\ t > 1) => route'[t - 1] # "none"
       /\ resp'[t].acao \in {<<>>, <<ORIGIN>>}
       /\ \A i \in 1..Len(exits'[t]) :
            /\ exits'[t][i].rc # "nostart"
            /\ exits'[t][i].err = <<>>
            /\ exits'[t][i].out \in {<<>>, <<65>>}

\* the steps of the POST routes, interleaved at the subprocess calls and
\* between the read, the unlinks and the response; each thread serves one
\* request
NextConc ==
  \E t \in Threads :
    \/ Upload(t) /\ ConcInputs
    \/ UploadOverlayExit(t) /\ ConcInputs
    \/ ProcessInline(t) /\ ConcInputs
    \/ StagingExit(t) /\ ConcInputs
    \/ OverlayExit(t) /\ ConcInputs
    \/ FinalizeExit(t) /\ ConcInputs
    \/ ReadFinal(t) /\ ConcInputs
    \/ Cleanup(t) /\ ConcInputs
    \/ RespondInline(t) /\ ConcInputs

SpecConc == InitConc /\ [][NextConc]_vars

\* ------------------------------------------------- requests to completion
\* the requests of the runs to completion: a video field and no mask field,
\* stderr empty or not UTF-8, no partial output, one
\* Access-Control-Allow-Origin value
LiveInputs ==
  /\ \A p \in DOMAIN fs' : fs'[p] # <<"partial">>
  /\ \A t \in Threads :
       /\ route'[t] # "none" => (form'[t].hasVideo /\ ~form'[t].hasMask)
       /\ resp'[t].acao \in {<<>>, <<ORIGIN>>}
       /\ \A i \in 1..Len(exits'[t]) : exits'[t][i].err \in {<<>>, <<255>>}

\* thread t takes a request of a POST route
Arrive(t) == (Upload(t) \/ ProcessInline(t)) /\ LiveInputs

\* the tool the handler of thread t waits for ends, or cannot be started
ToolExit(t) ==
  (UploadOverlayExit(t) \/ StagingExit(t) \/ OverlayExit(t) \/ FinalizeExit(t)) /\ LiveInputs

\* the handler of thread t runs on: the read, the unlinks, the response
HandlerStep(t) == (ReadFinal(t) \/ Cleanup(t) \/ RespondInline(t)) /\ LiveInputs

NextLive == \E t \in Threads : Arrive(t) \/ ToolExit(t) \/ HandlerStep(t) \/ Finish(t)

\* a handler thread that can run does run; every tool invocation ends
Fairness == \A t \in Threads : WF_vars(HandlerStep(t)) /\ WF_vars(ToolExit(t))

SpecLive == Init /\ [][NextLive]_vars /\ Fairness

\* =================================================================== claims
Done(t) == pc[t] = "done"

InlineDone(t) == Done(t) /\ route[t] = "process_inline"

\* every tool the request ran has exited, with status zero or not
AllExited(t) == \A i \in 1..Len(exits[t]) : exits[t][i].rc \in {"zero", "nonzero"}

\* how the i-th tool of the request ended, "" if it has not
Rc(t, i) == IF i <= Len(exits[t]) THEN exits[t][i].rc ELSE ""

\* the strict alphanumeric pattern: one or more ASCII letters and digits
StrictAlnum(s) == Len(s) > 0 /\ \A i \in 1..Len(s) : s[i] \in Letters \cup Digits

\* the request has written no file and run no tool
NoEffects(t) == created[t] = {} /\ invoked[t] = <<>>

RECURSIVE encode(_)
\* the UTF-8 bytes of a text of code points below 2048
encode(x) ==
  IF x = <<>> THEN <<>>
  ELSE (IF x[1] < 128 THEN <<x[1]>>
        ELSE <<192 + (x[1] \div 64), 128 + (x[1] % 64)>>) \o encode(Tail(x))

\* C1: when a /process-inline request whose tools all exited (zero or not)
\* gets its response from the handler, none of the temp files the request
\* created still exists.
C1_NoTempFileLeft ==
  \A t \in Threads :
    (InlineDone(t) /\ AllExited(t) /\ resp[t].kind # "html")
      => created[t] \cap DOMAIN fs = {}

\* C2: a /process-inline request whose mask identifier does not match the
\* strict alphanumeric pattern is answered 400, runs no tool and creates no
\* temp file.
C2_InvalidMaskRejected ==
  \A t \in Threads :
    (route[t] = "process_inline" /\ ~StrictAlnum(MaskName(form[t])))
      => /\ NoEffects(t)
         /\ pc[t] = "done"
         /\ resp[t].status = 400

C2_Witness ==
  \E t \in Threads :
    /\ InlineDone(t)
    /\ form[t].hasVideo /\ form[t].hasMask
    /\ form[t].mask = <<".", ".", "/", "e", "v", "i", "l">>
    /\ resp[t].status = 400
    /\ resp[t].error = "Invalid mask name"

\* C3: /upload or /process-inline without a video field is answered 400 with
\* {"error": "No video field in form"}, /process-inline with an alphanumeric
\* mask identifier that has no asset file is answered 400, and in these cases
\* the request writes no file and runs no tool.
C3_RejectedNoSideEffects ==
  \A t \in Threads :
    /\ (route[t] \in {"upload", "process_inline"} /\ ~form[t].hasVideo)
         => /\ NoEffects(t)
            /\ pc[t] = "done"
            /\ resp[t].status = 400 /\ resp[t].kind = "json"
            /\ resp[t].error = "No video field in form" /\ ~resp[t].hasDetails
    /\ ( /\ route[t] = "process_inline" /\ form[t].hasVideo
         /\ StrictAlnum(MaskName(form[t]))
         /\ Append(MASK_DIR, MaskName(form[t]) \o s_png) \notin DOMAIN fs )
         => /\ NoEffects(t)
            /\ pc[t] = "done"
            /\ resp[t].status = 400

C3_Witness ==
  \E t \in Threads :
    /\ Done(t) /\ route[t] = "upload" /\ ~form[t].hasVideo
    /\ resp[t].status = 400
    /\ DOMAIN fs = {MASK_PATH}

\* C4: when staging and overlay exit zero and finalization exits non-zero,
\* /process-inline answers 200 video/mp4 with the bytes of the overlay output.
C4_FallbackServesOverlay ==
  \A t \in Threads :
    (InlineDone(t) /\ Rc(t, 1) = "zero" /\ Rc(t, 2) = "zero" /\ Rc(t, 3) = "nonzero")
      => /\ resp[t].status = 200
         /\ resp[t].mimetype = "video/mp4"
         /\ resp[t].body = <<form[t].video, "x264", "masked">>

\* C5: a non-zero exit of the staging transcode or the overlay step of
\* /process-inline, or of the overlay step of /upload, is answered 500 with a
\* JSON body whose details are exactly the stderr of the tool; a request
\* rejected by validation is answered 400.
C5_ToolFailureJson ==
  \A t \in Threads :
    (Done(t) /\ route[t] \in {"upload", "process_inline"})
      => /\ (Len(exits[t]) \in {1, 2} /\ Rc(t, Len(exits[t])) = "nonzero")
              => /\ resp[t].status = 500
                 /\ resp[t].kind = "json"
                 /\ resp[t].hasDetails
                 /\ encode(resp[t].details) = exits[t][Len(exits[t])].err
         /\ invoked[t] = <<>> => resp[t].status = 400

\* C7: an /upload with a video whose overlay step exits zero is answered 200
\* with processed_url /processed/<id>_mask.mp4, <id> being the identifier of
\* the stored <id>.webm, and GET of that path serves the file of that name in
\* the processed directory.
C7_UploadUrlServed ==
  \A t \in Threads :
    (Done(t) /\ route[t] = "upload" /\ form[t].hasVideo /\ Rc(t, 1) = "zero")
      => /\ resp[t].status = 200 /\ resp[t].kind = "json"
         /\ \E id \in UuidPool :
              /\ loc[t].input_path = Append(UPLOAD_DIR, id \o s_webm)
              /\ loc[t].input_path \in DOMAIN fs
              /\ resp[t].url = s_url_prefix \o id \o s_mask_mp4
              /\ Append(PROCESSED_DIR, id \o s_mask_mp4) \in DOMAIN fs
              /\ send_from_directory(fs, PROCESSED_DIR,
                                     SubSeq(resp[t].url, Len(s_url_prefix) + 1,
                                            Len(resp[t].url))).status = 200

C7_Witness ==
  \E t \in Threads :
    /\ Done(t) /\ route[t] = "upload" /\ Rc(t, 1) = "zero"
    /\ resp[t].url = s_url_prefix \o <<"a", "-", "1">> \o s_mask_mp4

\* C8: for every mask identifier /process-inline accepts, the mask path it
\* hands to the overlay step is <base>/masks/<identifier>.png, a file
\* directly inside the mask directory.
C8_MaskPathInsideMaskDir ==
  \A t \in Threads :
    (route[t] = "process_inline" /\ invoked[t] # <<>>)
      => LET want == BASE_DIR \o << s_masks >> \o << MaskName(form[t]) \o s_png >>
         IN /\ loc[t].mask_path = want
            /\ \A i \in 1..Len(want[Len(want)]) : want[Len(want)][i] \notin {"/", "\\"}
            /\ want[Len(want)] # s_dotdot
            /\ \A i \in 1..Len(invoked[t]) :
                 invoked[t][i].tool = "overlay" => invoked[t][i].mask = want

C8_Witness ==
  \E t \in Threads :
    /\ route[t] = "process_inline" /\ form[t].hasMask /\ form[t].mask = s_cat
    /\ Len(invoked[t]) >= 2
    /\ invoked[t][2].tool = "overlay" /\ invoked[t][2].mask = MASK_PATH

\* the paths the state machine of the inline route allows
AllowedTraces ==
  { <<"Received", "Staged", "Overlaid", "Finalized", "Cleaned", "Responded">>,
    <<"Received", "Staged", "Overlaid", "FallbackToOverlaid", "Cleaned", "Responded">>,
    <<"Received", "Staged", "Cleaned", "ErrorResponded">>,
    <<"Received", "Cleaned", "ErrorResponded">> }

\* C9: a /process-inline request that passed validation goes Received ->
\* Staged -> Overlaid -> Finalized (or FallbackToOverlaid) -> Cleaned ->
\* Responded, a non-zero exit of staging or overlay going to Cleaned ->
\* ErrorResponded; overlay runs only after staging exited zero, finalization
\* only after overlay exited zero, and each tool runs at most once.
C9_StateMachine ==
  \A t \in Threads :
    (route[t] = "process_inline" /\ invoked[t] # <<>> /\ AllExited(t))
      => /\ Len(invoked[t]) <= 3
         /\ \A i \in 1..Len(invoked[t]) :
              invoked[t][i].tool = <<"ffmpeg_stage", "overlay", "ffmpeg_final">>[i]
         /\ \A i \in 2..Len(invoked[t]) : Rc(t, i - 1) = "zero"
         /\ Done(t) => trace[t] \in AllowedTraces

\* C10: when all three tools exit zero, no temp file is deleted before the
\* finalized artifact is read, the read takes a file that exists, the temp
\* files are deleted before the response, and the 200 body is the content of
\* the finalized artifact.
C10_ReadThenDeleteThenRespond ==
  \A t \in Threads :
    (route[t] = "process_inline" /\ Rc(t, 1) = "zero" /\ Rc(t, 2) = "zero" /\ Rc(t, 3) = "zero")
      => LET finalized == <<form[t].video, "x264", "masked", "fps30">>
         IN /\ pc[t] \in {"read", "cleanup", "respond", "done"}
            /\ pc[t] = "read" => (created[t] \subseteq DOMAIN fs /\ loc[t].video_bytes = <<>>)
            /\ pc[t] = "cleanup"
                 => /\ created[t] \subseteq DOMAIN fs
                    /\ loc[t].final_mp4 \in created[t]
                    /\ loc[t].final_mp4 # loc[t].output_path
                    /\ loc[t].video_bytes = fs[loc[t].final_mp4]
            /\ pc[t] = "respond" => (created[t] \cap DOMAIN fs = {} /\ resp[t] = NoResp)
            /\ pc[t] = "done"
                 => /\ resp[t].status = 200
                    /\ resp[t].body = finalized
                    /\ created[t] \cap DOMAIN fs = {}

C10_Witness ==
  \E t \in Threads :
    /\ InlineDone(t)
    /\ Rc(t, 1) = "zero" /\ Rc(t, 2) = "zero" /\ Rc(t, 3) = "zero"
    /\ resp[t].status = 200
    /\ resp[t].body = <<"clip", "x264", "masked", "fps30">>

\* the request of thread t is under way: accepted and not yet answered
InFlight(t) == pc[t] \notin {"idle", "done"}

\* the file the next step of thread t reads: the input of the tool it waits
\* for, or the file it loads into memory
ReadSet(t) ==
  IF pc[t] \in {"staging", "upload_overlay"} THEN {loc[t].input_path}
  ELSE IF pc[t] = "overlay" THEN {invoked[t][Len(invoked[t])].src}
  ELSE IF pc[t] = "finalizing" THEN {loc[t].output_path}
  ELSE IF pc[t] = "read" THEN {loc[t].final_mp4}
  ELSE {}

\* the files of different requests have distinct paths
DistinctFiles ==
  \A t, u \in Threads : t # u => created[t] \cap created[u] = {}

\* a request reads files of its own, never one of another request
ReadsOwnFiles ==
  \A t \in Threads :
    /\ ReadSet(t) \subseteq created[t]
    /\ \A u \in Threads \ {t} : ReadSet(t) \cap created[u] = {}

\* a step of one request leaves the files of every other request under way
\* in place and unchanged
NoInterference ==
  \A u \in Threads :
    (InFlight(u) /\ pc'[u] = pc[u])
      => \A p \in created[u] : p \in DOMAIN fs /\ p \in DOMAIN fs' /\ fs'[p] = fs[p]

\* C11: for any interleaving of concurrent /upload and /process-inline
\* requests, the files of different requests under way have pairwise distinct
\* paths, and no request reads, overwrites or deletes a file created by
\* another request that is still under way.
C11_RequestsDoNotCollide ==
  [][NoInterference /\ DistinctFiles' /\ ReadsOwnFiles']_vars

C11_Witness ==
  \E t, u \in Threads :
    /\ t # u
    /\ route[t] = "process_inline" /\ pc[t] = "finalizing"
    /\ route[u] = "process_inline" /\ pc[u] = "overlay"
    /\ Cardinality(created[t] \cup created[u]) = 7
    /\ created[t] \cup created[u] \subseteq DOMAIN fs

\* the response is a success payload: the JSON with processed_url or the video
SuccessPayload(r) ==
  /\ r.status = 200
  /\ \/ r.kind = "json" /\ r.url # <<>>
     \/ r.kind = "video" /\ r.mimetype = "video/mp4"

\* the response is a JSON error object with a summary and details
ErrorPayload(r) ==
  r.kind = "json" /\ r.status \in {400, 500} /\ r.error # "" /\ r.hasDetails

\* C12: whatever the outcome of each tool invocation of an /upload or
\* /process-inline request (exit zero, exit non-zero, not started), the
\* response is a success payload or a JSON error object with a summary and
\* diagnostic detail.
C12_WellFormedResponse ==
  \A t \in Threads :
    (Done(t) /\ route[t] \in {"upload", "process_inline"} /\ invoked[t] # <<>>)
      => SuccessPayload(resp[t]) \/ ErrorPayload(resp[t])

\* C13: /upload runs the overlay step only, on the stored upload and with the
\* default mask cat.png whatever the form holds; /process-inline runs the
\* staging transcode first and hands the overlay step the staged
\* intermediate, never the raw upload.
C13_ToolSequences ==
  \A t \in Threads :
    /\ route[t] = "upload"
         => /\ Len(invoked[t]) <= 1
            /\ \A i \in 1..Len(invoked[t]) :
                 /\ invoked[t][i].tool = "overlay"
                 /\ invoked[t][i].src = loc[t].input_path
                 /\ SubSeq(invoked[t][i].src, 1, Len(UPLOAD_DIR)) = UPLOAD_DIR
                 /\ invoked[t][i].mask = BASE_DIR \o << s_masks, s_cat \o s_png >>
    /\ (route[t] = "process_inline" /\ invoked[t] # <<>>)
         => /\ invoked[t][1].tool = "ffmpeg_stage"
            /\ invoked[t][1].src = loc[t].input_path
            /\ \A i \in 2..Len(invoked[t]) :
                 invoked[t][i].tool = "overlay"
                   => /\ i = 2
                      /\ invoked[t][i].src = invoked[t][1].dst
                      /\ invoked[t][i].src # loc[t].input_path

C13_Witness ==
  \E t \in Threads :
    /\ route[t] = "upload" /\ form[t].hasMask /\ form[t].mask = s_dog
    /\ pc[t] = "upload_overlay"
    /\ invoked[t][1].mask = MASK_PATH

C13_WitnessInline ==
  \E t \in Threads :
    /\ route[t] = "process_inline" /\ pc[t] = "overlay"
    /\ invoked[t][2].src = loc[t].interm_mp4

\* p is a file of the upload, the processed or the mask directory
Durable(p) ==
  Len(p) > 2 /\ SubSeq(p, 1, 2) \in {UPLOAD_DIR, PROCESSED_DIR, MASK_DIR}

\* a step keeps every durable file, with its content
DurableKept ==
  \A p \in DOMAIN fs : Durable(p) => (p \in DOMAIN fs' /\ fs'[p] = fs[p])

\* a step of /process-inline or GET /processed adds no durable file either
RoutesLeaveDurable ==
  \A t \in Threads :
    (pc'[t] # pc[t] /\ {route[t], route'[t]} \cap {"process_inline", "processed"} # {})
      => \A p \in DOMAIN fs' : Durable(p) => p \in DOMAIN fs

\* once /upload has answered, the stored upload is there as it was received
UploadRetained ==
  \A t \in Threads :
    (Done(t) /\ route[t] = "upload" /\ form[t].hasVideo)
      => /\ loc[t].input_path \in DOMAIN fs
         /\ fs[loc[t].input_path] = <<form[t].video>>

\* C14: no operation deletes or overwrites a file of the upload, processed or
\* mask directory; the stored upload is retained when /upload succeeds and
\* when its overlay step fails, and /process-inline and GET /processed leave
\* the three directories as they are.
C14_DurableFilesKept ==
  [][DurableKept /\ RoutesLeaveDurable /\ UploadRetained']_vars

C14_Witness ==
  \E t \in Threads :
    /\ Done(t) /\ route[t] = "upload" /\ Rc(t, 1) = "nonzero"
    /\ resp[t].status = 500
    /\ loc[t].input_path \in DOMAIN fs

\* C15: if every tool invocation ends, every request of /upload or
\* /process-inline that is under way is eventually answered.
C15_EveryRequestAnswered ==
  \A t \in Threads : InFlight(t) ~> Done(t)

C15_Witness ==
  \E t \in Threads :
    /\ Done(t) /\ route[t] = "process_inline" /\ Len(exits[t]) = 3
    /\ resp[t].status = 200

====
